---------------------------- MODULE Spec2Model ----------------------------
(***************************************************************************)
(* Model of nvflare/private/fed/server/message_send.py: send_requests, the *)
(* scatter-gather command dispatcher of the FL server.                     *)
(*                                                                         *)
(* One behaviour is one invocation of send_requests.  Init draws the       *)
(* arguments (requests, clients, job_id, timeout_secs, optional); the      *)
(* actions are the statements of the function in program order, plus the   *)
(* steps of the transport (the cell) while the function is blocked inside  *)
(* broadcast_multi_requests.                                               *)
(*                                                                         *)
(* Python values are modelled as follows.                                  *)
(*   dict            a function with a finite domain; an insertion-ordered *)
(*                   dict that the code iterates is a sequence of          *)
(*                   <<key, value>> pairs with distinct keys               *)
(*   None            the string "None" where the other values are strings; *)
(*                   what clients.get returns is << >> for None and        *)
(*                   << client >> for a Client                             *)
(*   FQCN            a sequence of path segments; FQCN.join concatenates   *)
(*   float timeout   an integer number of seconds                          *)
(***************************************************************************)
EXTENDS Integers, Sequences, FiniteSets, TLC

VARIABLES
    command,         \* argument: the command to be sent
    requests,        \* argument: a dict {token: request}, or a list
    clients,         \* argument: the registry, a dict token -> Client
    job_id,          \* argument: None, "" or a job id
    timeout_secs,    \* argument
    optional_arg,    \* argument `optional` as the caller passed it
    optional,        \* the local name `optional` (rebound at line 80)
    target_msgs,     \* local dict fqcn -> TargetMessage
    fqcn_to_client,  \* local dict fqcn -> Client
    fqcn_to_req,     \* local dict fqcn -> request
    i,               \* position of `for token, req in requests.items()`
    replies,         \* the dict the broadcast returns, in iteration order
    k,               \* position of `for fqcn, reply in replies.items()`
    result,          \* local list of ClientReply
    lookups,         \* tokens passed to clients.get, in order
    calls,           \* invocations the transport has recorded, in order
    pc,              \* where the call is
    outcome,         \* how the call ended: a return value or an exception
    suspended        \* the frame of a second call of send_requests, made by
                     \* another thread that is not running now; NoCall if none

vars == << command, requests, clients, job_id, timeout_secs, optional_arg, optional,
           target_msgs, fqcn_to_client, fqcn_to_req, i, replies, k, result,
           lookups, calls, pc, outcome, suspended >>

args == << command, requests, clients, job_id, timeout_secs, optional_arg >>

-----------------------------------------------------------------------------
(* Bounds of the model *)

\* the largest number of entries of `requests`
MaxRequests == 2

-----------------------------------------------------------------------------
(* Values *)

None == "None"

\* no second call is in progress
NoCall == << >>

Tokens == {"t1", "t2", "t3"}
Payloads == {"req-x", "req-y"}
Fqcns == { <<"node-A">>, <<"node-B">> }
JobIds == {None, "", "job-7"}
Timeouts == {-1, 0, 2}
Commands == {"check_status"}

CLIENT_MAIN == "CellChannel.CLIENT_MAIN"
CLIENT_COMMAND == "CellChannel.CLIENT_COMMAND"

EmptyDict == << >>

\* mutant of DictSet: d.setdefault(key, value), the first write wins
DictSetDefault(d, key, value) ==
    [x \in (DOMAIN d) \cup {key} |-> IF x \in DOMAIN d THEN d[x] ELSE value]

\* d[key] = value of a Python dict
DictSet(d, key, value) ==
    [x \in (DOMAIN d) \cup {key} |-> IF x = key THEN value ELSE d[x]]

\* the keys of an insertion-ordered dict
Keys(items) == { items[n][1] : n \in DOMAIN items }

\* the name a destination goes by
NameOf(token) == << "site", token >>

Client(token, fqcn) == [token |-> token, name |-> NameOf(token), fqcn |-> fqcn]

\* the registries a caller may pass: some tokens are known, each the key of
\* the Client that carries it; two clients may have the same fqcn
Registries ==
    UNION { { [t \in known |-> Client(t, f[t])] : f \in [known -> Fqcns] } :
            known \in SUBSET Tokens }

\* the insertion-ordered dicts of at most n entries
RECURSIVE OrderedDicts(_)
OrderedDicts(n) ==
    IF n = 0 THEN { << >> }
    ELSE LET shorter == OrderedDicts(n - 1)
         IN  shorter \cup
             { Append(d, <<t, p>>) :
                 d \in { s \in shorter : Len(s) = n - 1 },
                 t \in Tokens, p \in Payloads }

\* the items of the dicts a caller may pass: the keys are distinct
RequestItems ==
    { d \in OrderedDicts(MaxRequests) :
        \A a, b \in DOMAIN d : a # b => d[a][1] # d[b][1] }

\* the values a caller may pass as `requests`: a dict, or a list of pairs
RequestValues ==
    { [type |-> "dict", items |-> d] : d \in RequestItems } \cup
    { [type |-> "list", items |-> d] : d \in OrderedDicts(1) }

-----------------------------------------------------------------------------
(* The pure parts of send_requests *)

\* mutant of IsDict: the type check is missing
IsDictAny(r) == TRUE

\* isinstance(requests, dict)
IsDict(r) == r.type = "dict"

\* clients.get(token)
ClientsGet(registry, token) ==
    IF token \in DOMAIN registry THEN << registry[token] >> ELSE << >>

\* `if not client:`
NotClient(got) == got = << >>

\* `if job_id:` -- None and the empty string are falsy
Truthy(j) == j # None /\ j # ""

\* FQCN.join([a, b]): b nested under a
FQCNJoin(fqcn, child) == Append(fqcn, child)

\* mutant of TargetFqcn: the job cell is not addressed
TargetFqcnControlPlane(client, job) == client.fqcn

\* lines 76-84: the address of the target cell
TargetFqcn(client, job) ==
    IF Truthy(job) THEN FQCNJoin(client.fqcn, job) ELSE client.fqcn

\* lines 76-84: the channel of the target cell
TargetChannel(job) ==
    IF Truthy(job) THEN CLIENT_COMMAND ELSE CLIENT_MAIN

\* mutant of OptionalAfter: a job id does not force optional
OptionalAfterUnforced(job, opt) == opt

\* lines 76-84: the value of `optional` after one resolved entry
OptionalAfter(job, opt) ==
    IF Truthy(job) THEN TRUE ELSE opt

\* new_cell_message({}, req)
NewCellMessage(req) == [type |-> "CellMessage", headers |-> << >>, payload |-> req]

\* lines 86-88
TargetMessage(fqcn, channel, topic, req) ==
    [target |-> fqcn, channel |-> channel, topic |-> topic,
     message |-> NewCellMessage(req)]

\* mutant of IsFireAndForget: a timeout of exactly 0 blocks
IsFireAndForgetNegative(timeout) == timeout < 0

\* line 96
IsFireAndForget(timeout) == timeout <= 0

\* isinstance(reply, CellMessage)
IsCellMessage(reply) == reply.type = "CellMessage"

\* lines 105-109
ClientReply(client, req, reply) ==
    [client_token |-> client.token, client_name |-> client.name,
     request |-> req, reply |-> reply.payload]

\* how a call ends: it returns a list, or raises
Pending == [kind |-> "pending", exc |-> None, value |-> << >>]
Returned(v) == [kind |-> "return", exc |-> None, value |-> v]
Raised(e) == [kind |-> "raise", exc |-> e, value |-> << >>]


-----------------------------------------------------------------------------
(* The call *)

\* the state on entry: the arguments are bound and nothing has run
Init ==
    /\ command \in Commands
    /\ requests \in RequestValues
    /\ clients \in Registries
    /\ job_id \in JobIds
    /\ timeout_secs \in Timeouts
    /\ optional_arg \in BOOLEAN
    /\ optional = optional_arg
    /\ target_msgs = EmptyDict
    /\ fqcn_to_client = EmptyDict
    /\ fqcn_to_req = EmptyDict
    /\ i = 1
    /\ replies = << >>
    /\ k = 1
    /\ result = << >>
    /\ lookups = << >>
    /\ calls = << >>
    /\ pc = "start"
    /\ outcome = Pending
    /\ suspended = NoCall

\* the call ends with outcome o
Finish(o) ==
    /\ pc' = "done"
    /\ outcome' = o

\* lines 62-63: requests is not a dict
RaiseTypeError ==
    /\ pc = "start"
    /\ ~IsDict(requests)
    /\ Finish(Raised("TypeError"))
    /\ UNCHANGED << suspended, args, optional, target_msgs, fqcn_to_client, fqcn_to_req,
                    i, replies, k, result, lookups, calls >>

\* mutant of ReturnEmptyInput: the empty dict reaches the transport
ReturnEmptyInputAfterFire ==
    /\ pc = "start"
    /\ IsDict(requests)
    /\ Len(requests.items) = 0
    /\ calls' = Append(calls, [method |-> "fire_multi_requests_and_forget",
                               target_msgs |-> target_msgs,
                               optional |-> optional])
    /\ Finish(Returned(<< >>))
    /\ UNCHANGED << suspended, args, optional, target_msgs, fqcn_to_client, fqcn_to_req,
                    i, replies, k, result, lookups >>

\* lines 65-66: requests is empty
ReturnEmptyInput ==
    /\ pc = "start"
    /\ IsDict(requests)
    /\ Len(requests.items) = 0
    /\ Finish(Returned(<< >>))
    /\ UNCHANGED << suspended, args, optional, target_msgs, fqcn_to_client, fqcn_to_req,
                    i, replies, k, result, lookups, calls >>

\* lines 68-71: the three dicts are created and the loop is entered
EnterLoop ==
    /\ pc = "start"
    /\ IsDict(requests)
    /\ Len(requests.items) # 0
    /\ target_msgs' = EmptyDict
    /\ fqcn_to_client' = EmptyDict
    /\ fqcn_to_req' = EmptyDict
    /\ i' = 1
    /\ pc' = "resolve"
    /\ UNCHANGED << suspended, args, optional, replies, k, result, lookups, calls, outcome >>

\* mutant of SkipUnknown: clients[token], an unknown token raises
SkipUnknownRaises ==
    /\ pc = "resolve"
    /\ i <= Len(requests.items)
    /\ NotClient(ClientsGet(clients, requests.items[i][1]))
    /\ lookups' = Append(lookups, requests.items[i][1])
    /\ Finish(Raised("KeyError"))
    /\ UNCHANGED << suspended, args, optional, target_msgs, fqcn_to_client, fqcn_to_req,
                    i, replies, k, result, calls >>

\* mutant of SkipUnknown: the unknown token is deleted from `requests`
SkipUnknownPrunes ==
    /\ pc = "resolve"
    /\ i <= Len(requests.items)
    /\ NotClient(ClientsGet(clients, requests.items[i][1]))
    /\ lookups' = Append(lookups, requests.items[i][1])
    /\ requests' = [requests EXCEPT !.items =
                        SubSeq(requests.items, 1, i - 1) \o
                        SubSeq(requests.items, i + 1, Len(requests.items))]
    /\ UNCHANGED << suspended, command, clients, job_id, timeout_secs,
                    optional_arg, optional, target_msgs, fqcn_to_client, fqcn_to_req,
                    i, replies, k, result, calls, pc, outcome >>

\* lines 72-74: the token of entry i is not in the registry
SkipUnknown ==
    /\ pc = "resolve"
    /\ i <= Len(requests.items)
    /\ LET token == requests.items[i][1]
           got == ClientsGet(clients, token)
       IN  /\ NotClient(got)
           /\ lookups' = Append(lookups, token)
    /\ i' = i + 1
    /\ UNCHANGED << suspended, args, optional, target_msgs, fqcn_to_client, fqcn_to_req,
                    replies, k, result, calls, pc, outcome >>

\* lines 72-91: entry i resolves; its target is recorded under its address
ResolveTarget ==
    /\ pc = "resolve"
    /\ i <= Len(requests.items)
    /\ LET token == requests.items[i][1]
           req == requests.items[i][2]
           got == ClientsGet(clients, token)
           client == got[1]
       IN  /\ ~NotClient(got)
           /\ lookups' = Append(lookups, token)
           /\ LET fqcn == TargetFqcn(client, job_id)
                  channel == TargetChannel(job_id)
              IN  /\ target_msgs' =
                        DictSet(target_msgs, fqcn,
                                TargetMessage(fqcn, channel, command, req))
                  /\ fqcn_to_client' = DictSet(fqcn_to_client, fqcn, client)
                  /\ fqcn_to_req' = DictSet(fqcn_to_req, fqcn, req)
    /\ optional' = OptionalAfter(job_id, optional)
    /\ i' = i + 1
    /\ UNCHANGED << suspended, args, replies, k, result, calls, pc, outcome >>

\* the for loop of lines 71-91 has run to its end
LoopDone == pc = "resolve" /\ i > Len(requests.items)

\* mutant of ReturnNoTargets: the empty target map is sent all the same
ReturnNoTargetsAfterSend ==
    /\ LoopDone
    /\ DOMAIN target_msgs = {}
    /\ calls' = Append(calls, [method |-> "fire_multi_requests_and_forget",
                               target_msgs |-> target_msgs,
                               optional |-> optional])
    /\ Finish(Returned(<< >>))
    /\ UNCHANGED << suspended, args, optional, target_msgs, fqcn_to_client, fqcn_to_req,
                    i, replies, k, result, lookups >>

\* lines 93-94: nothing resolved
ReturnNoTargets ==
    /\ LoopDone
    /\ DOMAIN target_msgs = {}
    /\ Finish(Returned(<< >>))
    /\ UNCHANGED << suspended, args, optional, target_msgs, fqcn_to_client, fqcn_to_req,
                    i, replies, k, result, lookups, calls >>

\* mutant of FireAndForget: the send is inside the loop of lines 71-91
FireAndForgetEarly ==
    /\ pc = "resolve"
    /\ DOMAIN target_msgs # {}
    /\ IsFireAndForget(timeout_secs)
    /\ calls' = Append(calls, [method |-> "fire_multi_requests_and_forget",
                               target_msgs |-> target_msgs,
                               optional |-> optional])
    /\ Finish(Returned(<< >>))
    /\ UNCHANGED << suspended, args, optional, target_msgs, fqcn_to_client, fqcn_to_req,
                    i, replies, k, result, lookups >>

\* lines 96-99: fire-and-forget
FireAndForget ==
    /\ LoopDone
    /\ DOMAIN target_msgs # {}
    /\ IsFireAndForget(timeout_secs)
    /\ calls' = Append(calls, [method |-> "fire_multi_requests_and_forget",
                               target_msgs |-> target_msgs,
                               optional |-> optional])
    /\ Finish(Returned(<< >>))
    /\ UNCHANGED << suspended, args, optional, target_msgs, fqcn_to_client, fqcn_to_req,
                    i, replies, k, result, lookups >>

\* mutant of Broadcast: the broadcast is sent a second time
BroadcastResent ==
    /\ pc = "resolve" /\ i > Len(requests.items)
    /\ DOMAIN target_msgs # {}
    /\ ~IsFireAndForget(timeout_secs)
    /\ result' = << >>
    /\ LET call == [method |-> "broadcast_multi_requests",
                    target_msgs |-> target_msgs,
                    timeout |-> timeout_secs,
                    optional |-> optional]
       IN  calls' = Append(Append(calls, call), call)
    /\ replies' = << >>
    /\ pc' = "broadcast"
    /\ UNCHANGED << suspended, args, optional, target_msgs, fqcn_to_client, fqcn_to_req,
                    i, k, lookups, outcome >>

\* lines 100-102: the blocking broadcast is entered
Broadcast ==
    /\ LoopDone
    /\ DOMAIN target_msgs # {}
    /\ ~IsFireAndForget(timeout_secs)
    /\ result' = << >>
    /\ calls' = Append(calls, [method |-> "broadcast_multi_requests",
                               target_msgs |-> target_msgs,
                               timeout |-> timeout_secs,
                               optional |-> optional])
    /\ replies' = << >>
    /\ pc' = "broadcast"
    /\ UNCHANGED << suspended, args, optional, target_msgs, fqcn_to_client, fqcn_to_req,
                    i, k, lookups, outcome >>

-----------------------------------------------------------------------------
(* The transport, while the call is blocked in broadcast_multi_requests *)

\* the addresses the cells of this deployment may have in this call
Addresses == { TargetFqcn(Client(t, f), job_id) : t \in Tokens, f \in Fqcns }

\* what the cell at address a answers
ReplyPayload(a) == << "reply-of", a >>

\* the envelope a reply arrives in
ReplyEnvelope(type, a) == [type |-> type, payload |-> ReplyPayload(a)]

\* every target of the broadcast has replied
AllReplied == DOMAIN target_msgs \subseteq Keys(replies)

\* a target replies before the deadline
TargetReplies ==
    /\ pc = "broadcast"
    /\ \E a \in DOMAIN target_msgs :
          /\ a \notin Keys(replies)
          /\ replies' = Append(replies, << a, ReplyEnvelope("CellMessage", a) >>)
    /\ UNCHANGED << suspended, args, optional, target_msgs, fqcn_to_client, fqcn_to_req,
                    i, k, result, lookups, calls, pc, outcome >>

\* contract breach: the reply of a target is not a CellMessage
MalformedReply ==
    /\ pc = "broadcast"
    /\ \E a \in DOMAIN target_msgs :
          /\ a \notin Keys(replies)
          /\ replies' = Append(replies, << a, ReplyEnvelope("other", a) >>)
    /\ UNCHANGED << suspended, args, optional, target_msgs, fqcn_to_client, fqcn_to_req,
                    i, k, result, lookups, calls, pc, outcome >>

\* contract breach: a reply is keyed by an address that was not sent
StrayReply ==
    /\ pc = "broadcast"
    /\ \E a \in Addresses \ DOMAIN target_msgs :
          /\ a \notin Keys(replies)
          /\ replies' = Append(replies, << a, ReplyEnvelope("CellMessage", a) >>)
    /\ UNCHANGED << suspended, args, optional, target_msgs, fqcn_to_client, fqcn_to_req,
                    i, k, result, lookups, calls, pc, outcome >>

\* the broadcast returns: all targets have replied
ReturnAllReplied ==
    /\ pc = "broadcast"
    /\ AllReplied
    /\ pc' = "collect"
    /\ k' = 1
    /\ UNCHANGED << suspended, args, optional, target_msgs, fqcn_to_client, fqcn_to_req,
                    i, replies, result, lookups, calls, outcome >>

\* the broadcast returns: the deadline has elapsed
DeadlineElapses ==
    /\ pc = "broadcast"
    /\ ~AllReplied
    /\ pc' = "collect"
    /\ k' = 1
    /\ UNCHANGED << suspended, args, optional, target_msgs, fqcn_to_client, fqcn_to_req,
                    i, replies, result, lookups, calls, outcome >>

-----------------------------------------------------------------------------
(* Collecting the replies, lines 103-111 *)

\* the loop of lines 103-110 is at reply k
AtReply == pc = "collect" /\ k <= Len(replies)

\* mutant of RecordOf: `req`, the loop variable of lines 71-91, is used
RecordOfStaleReq(fqcn, reply) ==
    ClientReply(fqcn_to_client[fqcn], requests.items[Len(requests.items)][2], reply)

\* lines 105-109: the record of the reply from fqcn
RecordOf(fqcn, reply) ==
    ClientReply(fqcn_to_client[fqcn], fqcn_to_req[fqcn], reply)

\* mutant of AssertionFails: a reply that is no CellMessage is skipped
AssertionSkipped ==
    /\ AtReply
    /\ ~IsCellMessage(replies[k][2])
    /\ k' = k + 1
    /\ UNCHANGED << suspended, args, optional, target_msgs, fqcn_to_client, fqcn_to_req,
                    i, replies, result, lookups, calls, pc, outcome >>

\* line 104: the assertion fails
AssertionFails ==
    /\ AtReply
    /\ ~IsCellMessage(replies[k][2])
    /\ Finish(Raised("AssertionError"))
    /\ UNCHANGED << suspended, args, optional, target_msgs, fqcn_to_client, fqcn_to_req,
                    i, replies, k, result, lookups, calls >>

\* mutant of RaiseKeyError: fqcn_to_client.get(fqcn), the reply is skipped
RaiseKeyErrorSkipped ==
    /\ AtReply
    /\ IsCellMessage(replies[k][2])
    /\ replies[k][1] \notin DOMAIN fqcn_to_client
    /\ k' = k + 1
    /\ UNCHANGED << suspended, args, optional, target_msgs, fqcn_to_client, fqcn_to_req,
                    i, replies, result, lookups, calls, pc, outcome >>

\* line 105: fqcn_to_client has no such key
RaiseKeyError ==
    /\ AtReply
    /\ IsCellMessage(replies[k][2])
    /\ replies[k][1] \notin DOMAIN fqcn_to_client
    /\ Finish(Raised("KeyError"))
    /\ UNCHANGED << suspended, args, optional, target_msgs, fqcn_to_client, fqcn_to_req,
                    i, replies, k, result, lookups, calls >>

\* lines 104-110: one record is appended
CollectReply ==
    /\ AtReply
    /\ IsCellMessage(replies[k][2])
    /\ replies[k][1] \in DOMAIN fqcn_to_client
    /\ result' = Append(result, RecordOf(replies[k][1], replies[k][2]))
    /\ k' = k + 1
    /\ UNCHANGED << suspended, args, optional, target_msgs, fqcn_to_client, fqcn_to_req,
                    i, replies, lookups, calls, pc, outcome >>

\* mutant of ReturnResult: a target that has not replied raises
ReturnResultOrTimeout ==
    /\ pc = "collect"
    /\ k > Len(replies)
    /\ IF AllReplied THEN Finish(Returned(result))
                     ELSE Finish(Raised("TimeoutError"))
    /\ UNCHANGED << suspended, args, optional, target_msgs, fqcn_to_client, fqcn_to_req,
                    i, replies, k, result, lookups, calls >>

\* mutant of ReturnResult: the broadcast is entered again until all have replied
ReturnResultRetry ==
    /\ pc = "collect"
    /\ k > Len(replies)
    /\ IF AllReplied
         THEN /\ Finish(Returned(result))
              /\ UNCHANGED << replies, result >>
         ELSE /\ pc' = "broadcast"
              /\ replies' = << >>
              /\ result' = << >>
              /\ UNCHANGED outcome
    /\ UNCHANGED << suspended, args, optional, target_msgs, fqcn_to_client, fqcn_to_req,
                    i, k, lookups, calls >>

\* line 111
ReturnResult ==
    /\ pc = "collect"
    /\ k > Len(replies)
    /\ Finish(Returned(result))
    /\ UNCHANGED << suspended, args, optional, target_msgs, fqcn_to_client, fqcn_to_req,
                    i, replies, k, result, lookups, calls >>

-----------------------------------------------------------------------------
(* The specification *)

Next ==
    \/ RaiseTypeError
    \/ ReturnEmptyInput
    \/ EnterLoop
    \/ SkipUnknown
    \/ ResolveTarget
    \/ ReturnNoTargets
    \/ FireAndForget
    \/ Broadcast
    \/ TargetReplies
    \/ MalformedReply
    \/ StrayReply
    \/ ReturnAllReplied
    \/ DeadlineElapses
    \/ AssertionFails
    \/ RaiseKeyError
    \/ CollectReply
    \/ ReturnResult

Spec == Init /\ [][Next]_vars

\* the statements of send_requests, run by the command handler's thread
Step ==
    \/ RaiseTypeError \/ ReturnEmptyInput \/ EnterLoop \/ SkipUnknown
    \/ ResolveTarget \/ ReturnNoTargets \/ FireAndForget \/ Broadcast
    \/ AssertionFails \/ RaiseKeyError \/ CollectReply \/ ReturnResult

\* broadcast_multi_requests returns
BroadcastReturns == ReturnAllReplied \/ DeadlineElapses

\* the thread keeps running and the broadcast returns when all targets have
\* replied or the deadline elapses; no target is bound to reply
LiveSpec == Spec /\ WF_vars(Step) /\ WF_vars(BroadcastReturns)

-----------------------------------------------------------------------------
(* Two calls of send_requests, made by two threads on the same registry and *)
(* the same cell.  The variables above are the frame of the call whose     *)
(* thread is running; `suspended` is the frame of the other.  `clients` is *)
(* the registry both were given; `lookups` and `calls` are what the        *)
(* registry and the cell have seen from both.                              *)

\* mutant of Frame: the three dicts of lines 68-70 are not local to a call
\* (module-level dicts, or mutable default arguments)
FrameSharedDicts ==
    [command |-> command, requests |-> requests, job_id |-> job_id,
     timeout_secs |-> timeout_secs, optional_arg |-> optional_arg,
     optional |-> optional,
     i |-> i, replies |-> replies, k |-> k, result |-> result,
     pc |-> pc, outcome |-> outcome]

\* what is local to one call: its arguments (lines 38-40), its local names
\* (lines 68-72, 101-105), where it is and how it ended
Frame ==
    [command |-> command, requests |-> requests, job_id |-> job_id,
     timeout_secs |-> timeout_secs, optional_arg |-> optional_arg,
     optional |-> optional,
     target_msgs |-> target_msgs, fqcn_to_client |-> fqcn_to_client,
     fqcn_to_req |-> fqcn_to_req,
     i |-> i, replies |-> replies, k |-> k, result |-> result,
     pc |-> pc, outcome |-> outcome]

\* the frame of a call on entry
EntryFrame(cmd, reqs, job, timeout, opt) ==
    [command |-> cmd, requests |-> reqs, job_id |-> job,
     timeout_secs |-> timeout, optional_arg |-> opt, optional |-> opt,
     target_msgs |-> EmptyDict, fqcn_to_client |-> EmptyDict,
     fqcn_to_req |-> EmptyDict,
     i |-> 1, replies |-> << >>, k |-> 1, result |-> << >>,
     pc |-> "start", outcome |-> Pending]

\* the value a name has once the suspended call runs: its own if the name is
\* local to a call, the current one if it is not
Held(name, current) ==
    IF name \in DOMAIN Frame THEN suspended[name] ELSE current

\* the running thread is preempted and the other call's thread runs
Switch ==
    /\ suspended # NoCall
    /\ suspended.pc # "done"
    /\ suspended' = [name \in DOMAIN suspended |->
                        IF name \in DOMAIN Frame THEN Frame[name] ELSE suspended[name]]
    /\ command' = Held("command", command)
    /\ requests' = Held("requests", requests)
    /\ job_id' = Held("job_id", job_id)
    /\ timeout_secs' = Held("timeout_secs", timeout_secs)
    /\ optional_arg' = Held("optional_arg", optional_arg)
    /\ optional' = Held("optional", optional)
    /\ target_msgs' = Held("target_msgs", target_msgs)
    /\ fqcn_to_client' = Held("fqcn_to_client", fqcn_to_client)
    /\ fqcn_to_req' = Held("fqcn_to_req", fqcn_to_req)
    /\ i' = Held("i", i)
    /\ replies' = Held("replies", replies)
    /\ k' = Held("k", k)
    /\ result' = Held("result", result)
    /\ pc' = Held("pc", pc)
    /\ outcome' = Held("outcome", outcome)
    /\ UNCHANGED << clients, lookups, calls >>

\* the registries of the two-call runs: t1 is known, at node-A; t2 is known,
\* at node-A as well or at node-B; t3 is not known
SharedRegistries ==
    { r \in Registries : /\ DOMAIN r = {"t1", "t2"}
                         /\ r["t1"].fqcn = << "node-A" >> }

\* the `requests` of the first call: every payload is req-x
FirstRequests ==
    { r \in RequestValues : \A n \in DOMAIN r.items : r.items[n][2] = "req-x" }

\* the `requests` of the second call: one entry, of payload req-y
SecondRequests ==
    { [type |-> "dict", items |-> << << t, "req-y" >> >>] : t \in Tokens }

\* two calls have been entered; the thread of the first is running
TwoCallsInit ==
    /\ command \in Commands
    /\ requests \in FirstRequests
    /\ clients \in SharedRegistries
    /\ job_id \in {None, "job-7"}
    /\ timeout_secs \in {0, 2}
    /\ optional_arg = FALSE
    /\ optional = optional_arg
    /\ target_msgs = EmptyDict
    /\ fqcn_to_client = EmptyDict
    /\ fqcn_to_req = EmptyDict
    /\ i = 1
    /\ replies = << >>
    /\ k = 1
    /\ result = << >>
    /\ lookups = << >>
    /\ calls = << >>
    /\ pc = "start"
    /\ outcome = Pending
    /\ suspended \in { EntryFrame(command, r, None, 2, TRUE) : r \in SecondRequests }

TwoCallsNext == Next \/ Switch

TwoCallsSpec == TwoCallsInit /\ [][TwoCallsNext]_vars

-----------------------------------------------------------------------------
(* Vocabulary of the properties, stated over the arguments of the call *)

Done == pc = "done"

\* `requests` is a mapping
IsMapping == requests.type = "dict"

\* a job id is supplied
JobSupplied == job_id # None /\ job_id # ""

\* the call is in blocking mode
BlockingMode == timeout_secs > 0

Entries == requests.items

\* the entries of `requests` whose token the registry knows
ResolvedIdx ==
    IF IsMapping THEN { n \in DOMAIN Entries : Entries[n][1] \in DOMAIN clients }
    ELSE {}

ResolvedTokens == { Entries[n][1] : n \in ResolvedIdx }

UnknownTokens ==
    IF IsMapping THEN { Entries[n][1] : n \in DOMAIN Entries } \ DOMAIN clients
    ELSE {}

\* the address a known token is to be reached at
AddrOf(t) ==
    IF JobSupplied THEN clients[t].fqcn \o << job_id >> ELSE clients[t].fqcn

ResolvedAddrs == { AddrOf(t) : t \in ResolvedTokens }

\* two resolved tokens of this call share an address
Collision ==
    \E t, u \in ResolvedTokens : t # u /\ AddrOf(t) = AddrOf(u)

\* the last entry of `requests` that resolves to address a
LastIdxAt(a) ==
    CHOOSE n \in ResolvedIdx :
        /\ AddrOf(Entries[n][1]) = a
        /\ \A m \in ResolvedIdx : AddrOf(Entries[m][1]) = a => m <= n

\* the record a reply from address a is due
ExpectedRecord(a) ==
    LET t == Entries[LastIdxAt(a)][1]
    IN  [client_token |-> t, client_name |-> clients[t].name,
         request |-> Entries[LastIdxAt(a)][2], reply |-> ReplyPayload(a)]

\* the addresses that have replied
Replied == Keys(replies)

\* the transport has kept its contract: every reply is the CellMessage of a
\* target that was sent
ContractKept ==
    \A n \in DOMAIN replies :
        /\ replies[n][1] \in ResolvedAddrs
        /\ replies[n][2].type = "CellMessage"

\* the call has returned a list
HasReturned == Done /\ outcome.kind = "return"

\* record r is the record of some entry of `requests`
MatchesAnEntry(r) ==
    \E n \in ResolvedIdx :
        /\ r.client_token = Entries[n][1]
        /\ r.request = Entries[n][2]

-----------------------------------------------------------------------------
(* Properties *)

\* C1 as stated: in blocking mode, when every target replies, the list
\* returned has one record per resolved TOKEN (N records for N tokens), and
\* each record's (client_token, request) is an entry of `requests`.
RoundTripPerToken ==
    (Done /\ IsMapping /\ BlockingMode /\ ContractKept /\ ResolvedAddrs \subseteq Replied)
        => /\ outcome.kind = "return"
           /\ Len(outcome.value) = Cardinality(ResolvedTokens)
           /\ \A n \in DOMAIN outcome.value : MatchesAnEntry(outcome.value[n])

\* C1 amended: in blocking mode, when every target replies, the list returned
\* has one record per distinct resolved ADDRESS (so N records when the N
\* resolved tokens have pairwise distinct addresses); each record's
\* (client_token, request) is an entry of `requests`, its token is one that
\* resolves to the replying address, and no two records carry the same token.
RoundTripPerAddress ==
    (Done /\ IsMapping /\ BlockingMode /\ ContractKept /\ ResolvedAddrs \subseteq Replied)
        => /\ outcome.kind = "return"
           /\ Len(outcome.value) = Cardinality(ResolvedAddrs)
           /\ ~Collision => Len(outcome.value) = Cardinality(ResolvedTokens)
           /\ \A n \in DOMAIN outcome.value :
                 /\ MatchesAnEntry(outcome.value[n])
                 /\ AddrOf(outcome.value[n].client_token) = replies[n][1]
           /\ \A n, m \in DOMAIN outcome.value :
                 n # m => outcome.value[n].client_token # outcome.value[m].client_token

\* C1 witness: two tokens with different payloads resolve to two addresses,
\* both reply, and two records are returned.
RoundTripWitness ==
    /\ HasReturned /\ BlockingMode /\ ContractKept
    /\ Cardinality(ResolvedTokens) = 2
    /\ ~Collision
    /\ ResolvedAddrs \subseteq Replied
    /\ Len(outcome.value) = 2
    /\ outcome.value[1].request # outcome.value[2].request

\* C2: in blocking mode, whatever subset of the targets replies before the
\* deadline, the call returns (it raises nothing) exactly one record per
\* address that replied, each the record of that address: the token and name
\* of its destination, the payload sent to it and its reply.
PartialResults ==
    (Done /\ IsMapping /\ BlockingMode /\ ContractKept)
        => /\ outcome.kind = "return"
           /\ Len(outcome.value) = Len(replies)
           /\ \A n \in DOMAIN outcome.value :
                 outcome.value[n] = ExpectedRecord(replies[n][1])

\* C2 witness: two targets were sent, one replied, one record is returned.
PartialResultsWitness ==
    /\ HasReturned /\ BlockingMode /\ ContractKept
    /\ Cardinality(ResolvedAddrs) = 2
    /\ Len(replies) = 1
    /\ Len(outcome.value) = 1

\* C3: with timeout_secs <= 0 and at least one resolved target, the transport
\* sees one fire_multi_requests_and_forget carrying every resolved target and
\* no broadcast_multi_requests, and the call returns [].
FireAndForgetReturnsEmpty ==
    (IsMapping /\ timeout_secs <= 0)
        => /\ \A n \in DOMAIN calls :
                 calls[n].method = "fire_multi_requests_and_forget"
           /\ pc \notin {"broadcast", "collect"}
           /\ (Done /\ ResolvedTokens # {})
                 => /\ Len(calls) = 1
                    /\ DOMAIN calls[1].target_msgs = ResolvedAddrs
                    /\ outcome = Returned(<< >>)

\* C3 witness: timeout_secs is exactly 0, two targets resolved, the call ended.
FireAndForgetWitness ==
    /\ Done /\ IsMapping
    /\ timeout_secs = 0
    /\ Cardinality(ResolvedAddrs) = 2
    /\ Len(calls) = 1

\* C4: when some tokens of `requests` are not in the registry, the call does
\* not fail because of them (it raises only when the transport breaks its
\* contract), every target handed to the transport is the target of a token
\* that resolved, and every record returned belongs to a token that resolved.
UnknownTokensDropped ==
    (IsMapping /\ UnknownTokens # {})
        => /\ (Done /\ ContractKept) => outcome.kind = "return"
           /\ \A n \in DOMAIN calls :
                 /\ DOMAIN calls[n].target_msgs \subseteq ResolvedAddrs
                 /\ \A a \in DOMAIN calls[n].target_msgs :
                       \E m \in ResolvedIdx :
                           /\ AddrOf(Entries[m][1]) = a
                           /\ calls[n].target_msgs[a].message.payload = Entries[m][2]
           /\ \A n \in DOMAIN outcome.value :
                 outcome.value[n].client_token \in ResolvedTokens

\* C4 witness: one token is unknown, another resolved and its reply is returned.
UnknownTokensWitness ==
    /\ HasReturned
    /\ UnknownTokens # {}
    /\ ResolvedTokens # {}
    /\ Len(calls) = 1
    /\ Len(outcome.value) = 1

\* C5: with a job id, every target is addressed at its destination's fqcn
\* joined with the job id, on CLIENT_COMMAND, and the transport is called
\* with optional = TRUE whatever the caller passed; without a job id, every
\* target is addressed at its destination's fqcn, on CLIENT_MAIN.
JobScopedAddressing ==
    \A n \in DOMAIN calls :
        /\ DOMAIN calls[n].target_msgs =
              { IF JobSupplied THEN clients[t].fqcn \o << job_id >> ELSE clients[t].fqcn :
                    t \in ResolvedTokens }
        /\ \A a \in DOMAIN calls[n].target_msgs :
              /\ calls[n].target_msgs[a].target = a
              /\ calls[n].target_msgs[a].channel =
                    IF JobSupplied THEN CLIENT_COMMAND ELSE CLIENT_MAIN
        /\ JobSupplied => calls[n].optional = TRUE

\* C5 witness: a call with job id "job-7" and optional = False reached the
\* transport with a target at <<"node-A", "job-7">>.
JobScopedWitness ==
    /\ Len(calls) = 1
    /\ job_id = "job-7"
    /\ optional_arg = FALSE
    /\ << "node-A", "job-7" >> \in DOMAIN calls[1].target_msgs

\* C6: with an empty `requests` dict the call returns [] and the transport
\* (and the registry) is never called, whatever the timeout and the job id.
EmptyInputReturnsEmpty ==
    (IsMapping /\ Len(Entries) = 0)
        => /\ calls = << >>
           /\ lookups = << >>
           /\ pc \in {"start", "done"}
           /\ Done => outcome = Returned(<< >>)

\* C6 witness: a call with {} in blocking mode with a job id has ended.
EmptyInputWitness ==
    /\ Done /\ IsMapping /\ Len(Entries) = 0
    /\ BlockingMode /\ JobSupplied

\* C7: when `requests` is not a dict the call raises TypeError, and neither
\* the registry nor the transport is ever called.
TypeRejection ==
    ~IsMapping
        => /\ calls = << >>
           /\ lookups = << >>
           /\ pc \in {"start", "done"}
           /\ Done => outcome = Raised("TypeError")

\* C7 witness: a call with a non-empty list has ended in TypeError.
TypeRejectionWitness ==
    /\ Done /\ ~IsMapping /\ Len(Entries) = 1
    /\ outcome.exc = "TypeError"

\* C8 as stated: every call of send_requests makes exactly one transport call.
ExactlyOneTransportCall ==
    Done => Len(calls) = 1

\* C8 amended: a call of send_requests makes at most one transport call:
\* exactly one when at least one token resolves, and none when `requests` is
\* not a dict, is empty, or has no token that resolves; the one call carries
\* one target per resolved address (nothing is sent twice or retried).
AtMostOneTransportCall ==
    /\ Len(calls) <= 1
    /\ Done => Len(calls) = (IF ResolvedTokens # {} THEN 1 ELSE 0)
    /\ \A n \in DOMAIN calls : DOMAIN calls[n].target_msgs = ResolvedAddrs

\* C8 witness: a broadcast ended at the deadline with a target missing, and the
\* call ended with the one transport call it had made.
OneTransportCallWitness ==
    /\ Done
    /\ Len(calls) = 1
    /\ calls[1].method = "broadcast_multi_requests"
    /\ ~(ResolvedAddrs \subseteq Replied)

\* the entries the loop of lines 71-91 has been through that resolved to a
ProcessedAt(a) ==
    { n \in ResolvedIdx : n < i /\ pc # "start" /\ AddrOf(Entries[n][1]) = a }

\* C10: the three dicts have the same keys, one per address resolved so far,
\* and what is stored under an address (target message, client, request) is
\* that of the last entry processed that resolved to it; a reply from the
\* address yields one record, of that entry, whose request is the payload sent.
LastWriteWins ==
    /\ DOMAIN fqcn_to_client = DOMAIN target_msgs
    /\ DOMAIN fqcn_to_req = DOMAIN target_msgs
    /\ DOMAIN target_msgs = { a \in ResolvedAddrs : ProcessedAt(a) # {} }
    /\ \A a \in DOMAIN target_msgs :
          LET last == CHOOSE n \in ProcessedAt(a) : \A m \in ProcessedAt(a) : m <= n
          IN  /\ fqcn_to_client[a] = clients[Entries[last][1]]
              /\ fqcn_to_req[a] = Entries[last][2]
              /\ target_msgs[a].target = a
              /\ target_msgs[a].message.payload = Entries[last][2]
    /\ HasReturned =>
          \A n \in DOMAIN outcome.value :
              LET a == replies[n][1]
              IN  /\ outcome.value[n].client_token = Entries[LastIdxAt(a)][1]
                  /\ outcome.value[n].request = calls[1].target_msgs[a].message.payload
                  /\ \A m \in DOMAIN outcome.value : replies[m][1] = a => m = n

\* C10 witness: two tokens with different payloads resolved to one address,
\* one target was sent, it replied, and one record was returned.
LastWriteWinsWitness ==
    /\ HasReturned
    /\ Collision
    /\ Cardinality(ResolvedTokens) = 2
    /\ Entries[1][2] # Entries[2][2]
    /\ Cardinality(DOMAIN calls[1].target_msgs) = 1
    /\ Len(outcome.value) = 1


\* C9: in blocking mode the call always ends, whether or not every target
\* replies; when it returns, every reply the broadcast had received is in
\* the list returned, as the record of the address it came from.
StragglersDoNotBlock ==
    /\ (IsMapping /\ BlockingMode) ~> Done
    /\ []((HasReturned /\ BlockingMode /\ ContractKept)
            => \A n \in DOMAIN replies :
                  \E m \in DOMAIN outcome.value :
                      /\ outcome.value[m].reply = replies[n][2].payload
                      /\ AddrOf(outcome.value[m].client_token) = replies[n][1])

\* C9 witness: the call returned the reply of one target while another
\* resolved target had not replied.
StragglersWitness ==
    /\ HasReturned /\ BlockingMode /\ ContractKept
    /\ ~(ResolvedAddrs \subseteq Replied)
    /\ Len(replies) = 1
    /\ outcome.value[1].reply = replies[1][2].payload


\* C11: when `requests` is not empty and none of its tokens is in the registry,
\* the call returns [] and the transport is never called, whatever the
\* timeout and the job id; every token has been looked up by then.
NoTargetsReturnsEmpty ==
    (IsMapping /\ Len(Entries) > 0 /\ ResolvedTokens = {})
        => /\ calls = << >>
           /\ pc \notin {"broadcast", "collect"}
           /\ Done => /\ outcome = Returned(<< >>)
                      /\ lookups = [n \in DOMAIN Entries |-> Entries[n][1]]

\* C11 witness: a call with two unknown tokens, in blocking mode with a job
\* id, has ended.
NoTargetsWitness ==
    /\ Done /\ IsMapping
    /\ Len(Entries) = 2
    /\ ResolvedTokens = {}
    /\ BlockingMode /\ JobSupplied


\* the order of the phases of a call
Rank(p) ==
    CASE p = "start" -> 0
      [] p = "resolve" -> 1
      [] p = "broadcast" -> 2
      [] p = "collect" -> 3
      [] p = "done" -> 4

\* what holds of the phases in every state
PhaseOrder ==
    /\ calls # << >> => /\ IsMapping
                        /\ i > Len(Entries)
                        /\ lookups = [n \in DOMAIN Entries |-> Entries[n][1]]
    /\ Len(calls) <= 1
    /\ pc \in {"broadcast", "collect"}
          => /\ Len(calls) = 1
             /\ calls[1].method = "broadcast_multi_requests"
    /\ result # << >> => /\ pc \in {"collect", "done"}
                         /\ Len(calls) = 1
                         /\ calls[1].method = "broadcast_multi_requests"

\* what holds of every step of a call
PhaseStep ==
    /\ pc # "done"
    /\ Rank(pc) <= Rank(pc')
    /\ (pc = "resolve" /\ pc' = "resolve") => i' = i + 1
    /\ (pc = "collect" /\ pc' = "collect") => k' = k + 1
    /\ calls' # calls
          => /\ pc = "resolve" /\ i > Len(Entries)
             /\ IF calls'[Len(calls')].method = "fire_multi_requests_and_forget"
                  THEN pc' = "done"
                  ELSE pc' = "broadcast"
    /\ result' # result => pc = "collect" \/ pc' = "broadcast"
    /\ pc = "collect" => /\ replies' = replies
                         /\ calls' = calls
                         /\ target_msgs' = target_msgs

\* C12 as stated: a call that has resolved or skipped every entry of
\* `requests` has then made exactly one of Fire or Broadcast.
PhasesEndWithOneSend ==
    (Done /\ IsMapping /\ Len(Entries) > 0)
        => /\ Len(lookups) = Len(Entries)
           /\ Len(calls) = 1

\* C12 amended: the phases of a call are sequential with no re-entry: no
\* transport call is made before every entry of `requests` has been resolved
\* or skipped; then at most one of Fire or Broadcast happens, never both
\* (exactly one when a token resolved, none otherwise); records are collected
\* only after the broadcast has returned; no step goes back to an earlier
\* phase, and nothing happens after the call has ended.
PhasesSequential ==
    /\ []PhaseOrder
    /\ [](Done => Len(calls) = (IF ResolvedTokens # {} THEN 1 ELSE 0))
    /\ [][PhaseStep]_vars

\* C12 witness: a call looked up two tokens, made one broadcast, collected
\* two records and returned them.
PhasesWitness ==
    /\ HasReturned
    /\ Len(lookups) = 2
    /\ Len(calls) = 1
    /\ calls[1].method = "broadcast_multi_requests"
    /\ Len(outcome.value) = 2


\* reply n of the broadcast is not a CellMessage
Malformed(n) == replies[n][2].type # "CellMessage"

\* reply n of the broadcast is keyed by an address that was not sent
Stray(n) == replies[n][1] \notin ResolvedAddrs

\* C13 as stated: when any reply of the broadcast is not a CellMessage, the
\* call fails with an assertion failure.
AnyMalformedAsserts ==
    (Done /\ \E n \in DOMAIN replies : Malformed(n))
        => outcome = Raised("AssertionError")

\* C13 amended: when any reply of the broadcast is not a CellMessage, the call
\* fails and returns no list at all, whatever records it had built: with an
\* AssertionError when no reply iterated before the first such reply is keyed
\* by an address that was not sent, with the KeyError of that reply otherwise;
\* a target that only timed out makes the call return.
MalformedReplyAborts ==
    /\ (Done /\ \E n \in DOMAIN replies : Malformed(n))
          => LET first == CHOOSE n \in DOMAIN replies :
                              Malformed(n) /\ \A m \in 1..(n - 1) : ~Malformed(m)
             IN  /\ outcome.kind = "raise"
                 /\ outcome.value = << >>
                 /\ IF \E m \in 1..(first - 1) : Stray(m)
                      THEN outcome.exc = "KeyError"
                      ELSE outcome.exc = "AssertionError"
    /\ (Done /\ IsMapping /\ BlockingMode /\ ContractKept) => outcome.kind = "return"

\* C13 witness: the first reply was well formed and its record was built, the
\* second was not a CellMessage, and the call ended in AssertionError.
MalformedReplyWitness ==
    /\ Done
    /\ Len(replies) = 2
    /\ ~Malformed(1) /\ ~Stray(1)
    /\ Malformed(2)
    /\ Len(result) = 1
    /\ outcome = Raised("AssertionError")


\* C14: no step of a call changes the caller's `requests` or the registry
\* `clients`: whether the call returns or fails, both are what they were.
InputsUnchanged ==
    [][requests' = requests /\ clients' = clients]_vars

\* C14 witness: a call that looked up two tokens in the registry, one of them
\* unknown, has failed.
InputsUnchangedWitness ==
    /\ Done
    /\ outcome.kind = "raise"
    /\ Len(lookups) = 2
    /\ UnknownTokens # {}


\* C16: the optional flag of every transport call is TRUE when a job id is
\* supplied and the caller's `optional` otherwise, in fire-and-forget and in
\* blocking mode alike.
EffectiveOptional ==
    \A n \in DOMAIN calls :
        calls[n].optional = (IF JobSupplied THEN TRUE ELSE optional_arg)

\* C16 witness: without a job id and with optional = True, a call whose first
\* token is unknown and whose second resolved has fired with optional = True.
EffectiveOptionalWitness ==
    /\ Len(calls) = 1
    /\ calls[1].method = "fire_multi_requests_and_forget"
    /\ ~JobSupplied
    /\ optional_arg = TRUE
    /\ calls[1].optional = TRUE
    /\ Len(Entries) = 2
    /\ ResolvedIdx = {2}

\* C17: every record returned is the record of an address of the target map
\* this call sent, so there are no more records than resolved addresses, nor
\* than entries of `requests`; a reply keyed by an address that was not sent
\* makes the call fail, not return a record for it.
NoRecordWithoutTarget ==
    /\ Len(result) <= Cardinality(DOMAIN target_msgs)
    /\ HasReturned
          => /\ Len(outcome.value) <= Cardinality(ResolvedAddrs)
             /\ Cardinality(ResolvedAddrs) <= Len(Entries)
             /\ \A n \in DOMAIN outcome.value :
                   /\ Len(calls) = 1
                   /\ replies[n][1] \in DOMAIN calls[1].target_msgs
                   /\ AddrOf(outcome.value[n].client_token) = replies[n][1]
    /\ (Done /\ \E n \in DOMAIN replies : Stray(n))
          => /\ outcome.kind = "raise"
             /\ outcome.value = << >>

\* C17 witness: after the record of a target's reply was built, a reply keyed
\* by an address that was not sent ended the call in KeyError.
NoRecordWithoutTargetWitness ==
    /\ Done
    /\ Len(replies) = 2
    /\ ~Stray(1) /\ ~Malformed(1)
    /\ Stray(2) /\ ~Malformed(2)
    /\ Len(result) = 1
    /\ outcome = Raised("KeyError")


-----------------------------------------------------------------------------
\* what the call returns or raises when it is the only call in flight, from
\* its arguments and the replies its broadcast got
SoloOutcome ==
    IF ~IsMapping THEN Raised("TypeError")
    ELSE IF ResolvedTokens = {} \/ ~BlockingMode THEN Returned(<< >>)
    ELSE LET bad == { n \in DOMAIN replies : Malformed(n) \/ Stray(n) }
         IN  IF bad = {}
               THEN Returned([n \in DOMAIN replies |-> ExpectedRecord(replies[n][1])])
               ELSE LET first == CHOOSE n \in bad : \A m \in bad : n <= m
                    IN  Raised(IF Malformed(first) THEN "AssertionError"
                                                   ELSE "KeyError")

\* the three dicts of the running call hold what its own entries put there
MapsOwn ==
    /\ DOMAIN target_msgs = DOMAIN fqcn_to_client
    /\ DOMAIN target_msgs = DOMAIN fqcn_to_req
    /\ \A a \in DOMAIN target_msgs :
          \E n \in ResolvedIdx :
              /\ n < i
              /\ AddrOf(Entries[n][1]) = a
              /\ fqcn_to_client[a] = clients[Entries[n][1]]
              /\ fqcn_to_req[a] = Entries[n][2]
              /\ target_msgs[a].message.payload = Entries[n][2]

\* C15: two calls in flight at once, on the same registry and the same cell,
\* do not interfere: the three dicts of a call hold only what its own entries
\* put there, every transport call carries the requests of one call only,
\* and the call ends as it would have ended alone, each record pairing a
\* reply with the request this call sent to that address.
CallsIndependent ==
    /\ MapsOwn
    /\ \A n \in DOMAIN calls :
          \A a, b \in DOMAIN calls[n].target_msgs :
              calls[n].target_msgs[a].message.payload
                  = calls[n].target_msgs[b].message.payload
    /\ Done => outcome = SoloOutcome

\* both calls have returned their records; the second call looked up t1
\* between the two lookups of the first, and both sent to node-A
CallsIndependentWitness ==
    /\ Done
    /\ suspended # NoCall
    /\ suspended.pc = "done"
    /\ lookups = << "t1", "t1", "t2" >>
    /\ job_id = None
    /\ outcome.kind = "return"
    /\ suspended.outcome.kind = "return"
    /\ Len(outcome.value) + Len(suspended.outcome.value) = 3
    /\ \E n \in DOMAIN outcome.value : outcome.value[n].request = "req-y"
    /\ \E n \in DOMAIN suspended.outcome.value :
          suspended.outcome.value[n].request = "req-x"
=============================================================================
